---------------------------- MODULE Spec2Model ----------------------------
(***************************************************************************)
(* Model of simple-file-hosting: the download Access Gate                  *)
(* (src/check-download.js) and the geolocation cache with the request      *)
(* enrichment middleware (src/hosting.js).                                 *)
(*                                                                         *)
(* JavaScript strings are sequences of one-character strings, so that      *)
(* includes(), toLowerCase(), path.extname() and the regular expressions   *)
(* are computed on the characters.  The JavaScript value undefined is the  *)
(* sentinel Undefined.                                                     *)
(***************************************************************************)
EXTENDS Integers, Sequences, FiniteSets, TLC

VARIABLES
    config,          \* config.json, read once at startup
    ipInfoCache,     \* Map ip -> ipInfo | null          (hosting.js:33)
    ipAccessTimes,   \* Map ip -> time, in insertion order (hosting.js:34)
    now,             \* Date.now()
    reqs,            \* the in-flight requests of the server
    arrivals,        \* number of requests received so far
    greq,            \* gate session: the request the client sends
    gres,            \* gate session: the response to it
    ghist            \* gate session: the requests evaluated so far

vars == <<config, ipInfoCache, ipAccessTimes, now, reqs, arrivals, greq, gres, ghist>>
cacheVars == <<ipInfoCache, ipAccessTimes, now, reqs, arrivals>>
gateVars == <<greq, gres, ghist>>

---------------------------------------------------------------------------
(* Bounds of the model *)

\* MAX_CACHE_SIZE of hosting.js:32 is 100; the model runs the same code with
\* a small capacity.
MAX_CACHE_SIZE == 2
\* concurrent requests in flight
MaxInFlight == 2
\* requests received in one behaviour
MaxArrivals == 3
\* largest value of the clock
MaxTime == 2
\* requests of one gate session
MaxGateRequests == 3

---------------------------------------------------------------------------
(* JavaScript values and strings *)

Undefined == <<"undefined">>

\* JavaScript truthiness of a string-or-undefined value
Truthy(s) == s # Undefined /\ s # <<>>

\* a || ''
OrEmpty(s) == IF Truthy(s) THEN s ELSE <<>>

\* String.prototype.includes
Includes(s, sub) ==
    \E i \in 0..(Len(s) - Len(sub)) : SubSeq(s, i + 1, i + Len(sub)) = sub

LowerChar(c) ==
    CASE c = "A" -> "a" [] c = "B" -> "b" [] c = "C" -> "c" [] c = "D" -> "d"
      [] c = "E" -> "e" [] c = "F" -> "f" [] c = "G" -> "g" [] c = "H" -> "h"
      [] c = "I" -> "i" [] c = "J" -> "j" [] c = "K" -> "k" [] c = "L" -> "l"
      [] c = "M" -> "m" [] c = "N" -> "n" [] c = "O" -> "o" [] c = "P" -> "p"
      [] c = "Q" -> "q" [] c = "R" -> "r" [] c = "S" -> "s" [] c = "T" -> "t"
      [] c = "U" -> "u" [] c = "V" -> "v" [] c = "W" -> "w" [] c = "X" -> "x"
      [] c = "Y" -> "y" [] c = "Z" -> "z" [] OTHER -> c

\* String.prototype.toLowerCase
ToLowerCase(s) == [i \in 1..Len(s) |-> LowerChar(s[i])]

Digits == {"0", "1", "2", "3", "4", "5", "6", "7", "8", "9"}

DigitValue(c) ==
    CASE c = "0" -> 0 [] c = "1" -> 1 [] c = "2" -> 2 [] c = "3" -> 3
      [] c = "4" -> 4 [] c = "5" -> 5 [] c = "6" -> 6 [] c = "7" -> 7
      [] c = "8" -> 8 [] c = "9" -> 9

\* parseInt of a non-empty run of decimal digits
RECURSIVE parseInt(_)
parseInt(ds) ==
    IF ds = <<>> THEN 0
    ELSE 10 * parseInt(SubSeq(ds, 1, Len(ds) - 1)) + DigitValue(ds[Len(ds)])

SetMin(S) == CHOOSE x \in S : \A y \in S : x <= y

\* path.extname (posix): the text from the last "." of the last path segment
\* to its end; "" when that segment has no "." or only a leading one.
\* Trailing "/" are ignored.
RECURSIVE StripTrailingSlashes(_)
StripTrailingSlashes(p) ==
    IF p # <<>> /\ p[Len(p)] = "/" THEN StripTrailingSlashes(SubSeq(p, 1, Len(p) - 1))
    ELSE p

extname(p) ==
    LET q == StripTrailingSlashes(p)
        slashes == {i \in 1..Len(q) : q[i] = "/"}
        start == IF slashes = {} THEN 1 ELSE (CHOOSE i \in slashes : \A j \in slashes : j <= i) + 1
        base == SubSeq(q, start, Len(q))
        dots == {i \in 1..Len(base) : base[i] = "."}
        lastDot == CHOOSE i \in dots : \A j \in dots : j <= i
    IN  IF dots = {} THEN <<>>
        ELSE IF lastDot = 1 THEN <<>>
        ELSE IF base = <<".", ".">> THEN <<>>
        ELSE SubSeq(base, lastDot, Len(base))

---------------------------------------------------------------------------
(* src/check-download.js *)

\* the /…/i patterns, in lower case
blockedUserAgents ==
    << <<"w", "g", "e", "t">>, <<"c", "u", "r", "l">>, <<"i", "d", "m">>, <<"d", "o", "w", "n", "l", "o", "a", "d", "e", "r">>, <<"l", "i", "b", "w", "w", "w", "-", "p", "e", "r", "l">>, <<"p", "y", "t", "h", "o", "n">>,
       <<"n", "o", "d", "e", "-", "f", "e", "t", "c", "h">>, <<"a", "x", "i", "o", "s">>, <<"g", "o", "t">>, <<"s", "u", "p", "e", "r", "a", "g", "e", "n", "t">>, <<"b", "o", "t">>, <<"c", "r", "a", "w", "l", "e", "r">>,
       <<"s", "p", "i", "d", "e", "r">> >>

fileExts ==
    { <<".", "z", "i", "p">>, <<".", "r", "a", "r">>, <<".", "7", "z">>, <<".", "t", "a", "r">>, <<".", "g", "z">>, <<".", "e", "x", "e">>, <<".", "p", "d", "f">>, <<".", "d", "o", "c">>,
      <<".", "d", "o", "c", "x">>, <<".", "x", "l", "s">>, <<".", "x", "l", "s", "x">>, <<".", "p", "p", "t">>, <<".", "p", "p", "t", "x">>, <<".", "j", "p", "g">>, <<".", "j", "p", "e", "g">>,
      <<".", "p", "n", "g">>, <<".", "g", "i", "f">>, <<".", "m", "p", "4">>, <<".", "m", "p", "3">>, <<".", "a", "p", "k">>, <<".", "i", "s", "o">>, <<".", "t", "x", "t">> }

\* any extension counts as a download
isFileDownload_AnyExt(req) ==
    extname(req.path) # <<>>
    \/ Includes(OrEmpty(req.headers.accept), <<"a", "p", "p", "l", "i", "c", "a", "t", "i", "o", "n", "/", "o", "c", "t", "e", "t", "-", "s", "t", "r", "e", "a", "m">>)
    \/ Includes(OrEmpty(req.headers.accept), <<"a", "t", "t", "a", "c", "h", "m", "e", "n", "t">>)
    \/ Includes(OrEmpty(req.headers.contentDisposition), <<"a", "t", "t", "a", "c", "h", "m", "e", "n", "t">>)

isFileDownload(req) ==
    LET ext == ToLowerCase(extname(req.path))
        accept == OrEmpty(req.headers.accept)
        disposition == OrEmpty(req.headers.contentDisposition)
    IN  IF ext \in fileExts THEN TRUE
        ELSE IF Includes(accept, <<"a", "p", "p", "l", "i", "c", "a", "t", "i", "o", "n", "/", "o", "c", "t", "e", "t", "-", "s", "t", "r", "e", "a", "m">>) \/ Includes(accept, <<"a", "t", "t", "a", "c", "h", "m", "e", "n", "t">>) THEN TRUE
        ELSE IF Includes(disposition, <<"a", "t", "t", "a", "c", "h", "m", "e", "n", "t">>) THEN TRUE
        ELSE FALSE

minScore == 5

Point(b) == IF b THEN 1 ELSE 0

browserFeatureScore(req) ==
    LET h == req.headers
    IN    Point(Truthy(h.accept) /\ Includes(h.accept, <<"t", "e", "x", "t", "/", "h", "t", "m", "l">>))
        + Point(Truthy(h.accept) /\ Includes(h.accept, <<"i", "m", "a", "g", "e", "/", "w", "e", "b", "p">>))
        + Point(Truthy(h.acceptLanguage))
        + Point(Truthy(h.acceptEncoding) /\ Includes(h.acceptEncoding, <<"g", "z", "i", "p">>)
                                         /\ Includes(h.acceptEncoding, <<"d", "e", "f", "l", "a", "t", "e">>))
        + Point(Truthy(h.secFetchDest))
        + Point(Truthy(h.secFetchMode))
        + Point(Truthy(h.secFetchSite))
        + Point(Truthy(h.secChUa))
        + Point(h.connection = <<"k", "e", "e", "p", "-", "a", "l", "i", "v", "e">>)
        + Point(h.upgradeInsecureRequests = <<"1">>)
        + Point(Truthy(h.cacheControl))

\* score > minScore in place of score >= minScore
checkModernBrowserFeatures_Strict(req) == browserFeatureScore(req) > minScore

checkModernBrowserFeatures(req) == browserFeatureScore(req) >= minScore

\* the /token\/([0-9]+)/i patterns, in lower case
modernBrowsers == << <<"c", "h", "r", "o", "m", "e", "/">>, <<"f", "i", "r", "e", "f", "o", "x", "/">>, <<"s", "a", "f", "a", "r", "i", "/">>, <<"e", "d", "g", "/">>, <<"o", "p", "r", "/">> >>

minVersion == 70

NoMatch == -1

\* userAgent.match(/token([0-9]+)/i): parseInt of the digits captured by the
\* leftmost match, NoMatch when there is none
matchVersion(userAgent, token) ==
    LET low == ToLowerCase(userAgent)
        n == Len(token)
        starts == {i \in 1..Len(low) :
                      /\ i + n <= Len(low)
                      /\ SubSeq(low, i, i + n - 1) = token
                      /\ low[i + n] \in Digits}
    IN  IF starts = {} THEN NoMatch
        ELSE LET first == SetMin(starts) + n
                 ends == {j \in first..Len(low) : \A k \in first..j : low[k] \in Digits}
                 last == CHOOSE j \in ends : \A k \in ends : k <= j
             IN  parseInt(SubSeq(low, first, last))

matchesBlocked(userAgent) ==
    \E k \in 1..Len(blockedUserAgents) : Includes(ToLowerCase(userAgent), blockedUserAgents[k])

\* the denylist loop left out
isValidBrowser_NoDenylist(userAgent) ==
    IF ~Truthy(userAgent) THEN FALSE
    ELSE \E k \in 1..Len(modernBrowsers) :
            LET version == matchVersion(userAgent, modernBrowsers[k])
            IN  version # NoMatch /\ version >= minVersion

isValidBrowser(userAgent) ==
    IF ~Truthy(userAgent) THEN FALSE
    ELSE IF matchesBlocked(userAgent) THEN FALSE
    ELSE \E k \in 1..Len(modernBrowsers) :
            LET version == matchVersion(userAgent, modernBrowsers[k])
            IN  version # NoMatch /\ version >= minVersion

\* req.get('Referrer') || req.get('Referer'); Express answers both names with
\* headers.referrer || headers.referer
getReferrer(req) ==
    IF Truthy(req.headers.referrer) THEN req.headers.referrer ELSE req.headers.referer

\* no response yet
NoResponse == [kind |-> "None", status |-> 0, reason |-> "", setsCookie |-> FALSE]

\* the verdicts: next(), res.status(403).send(reason), res.send(challenge page)
Allow == [kind |-> "Allow", status |-> 0, reason |-> "", setsCookie |-> FALSE]
Deny(reason) == [kind |-> "Deny", status |-> 403, reason |-> reason, setsCookie |-> FALSE]
Challenge == [kind |-> "Challenge", status |-> 200, reason |-> "no-javascript", setsCookie |-> TRUE]

\* config.downloadCheck?.flag
flagOn(cfg, flag) == cfg.hasDownloadCheck /\ cfg.downloadCheck[flag]

\* the allowlist compared for equality instead of containment
referrerAllowed_Exact(req, cfg) ==
    /\ flagOn(cfg, "enableReferrer")
    /\ Truthy(getReferrer(req))
    /\ cfg.downloadCheck.domainsIsArray
    /\ \E k \in 1..Len(cfg.downloadCheck.allowedRefDomains) :
          getReferrer(req) = cfg.downloadCheck.allowedRefDomains[k]

referrerAllowed(req, cfg) ==
    /\ flagOn(cfg, "enableReferrer")
    /\ Truthy(getReferrer(req))
    /\ cfg.downloadCheck.domainsIsArray
    /\ \E k \in 1..Len(cfg.downloadCheck.allowedRefDomains) :
          Includes(getReferrer(req), cfg.downloadCheck.allowedRefDomains[k])

\* req.cookies && req.cookies.jsEnabled; cookie-parser (hosting.js:10) always
\* sets req.cookies
\* the cookie read under another name
hasJsCheck_WrongCookie(req) == FALSE

\* req.cookies alone taken as the proof
hasJsCheck_AnyCookies(req) == TRUE

hasJsCheck(req) == Truthy(req.cookies.jsEnabled)

\* the user-agent check run whatever its flag says
validateDownloadRequest_UaAlways(req, cfg) ==
    IF ~isFileDownload(req) THEN Allow
    ELSE IF referrerAllowed(req, cfg) THEN Allow
    ELSE IF ~isValidBrowser(req.headers.userAgent) THEN Deny("user-agent")
    ELSE IF flagOn(cfg, "enableBrowserFeature") /\ ~checkModernBrowserFeatures(req)
        THEN Deny("browser-feature")
    ELSE IF /\ flagOn(cfg, "enableReferrer")
            /\ ~Truthy(getReferrer(req))
            /\ ~Includes(req.path, <<"i", "n", "d", "e", "x", ".", "h", "t", "m", "l">>)
        THEN Deny("referrer")
    ELSE IF flagOn(cfg, "enableJsCheck") /\ ~hasJsCheck(req) THEN Challenge
    ELSE Allow

\* the header-feature check placed before the user-agent check
validateDownloadRequest_FeatureFirst(req, cfg) ==
    IF ~isFileDownload(req) THEN Allow
    ELSE IF referrerAllowed(req, cfg) THEN Allow
    ELSE IF flagOn(cfg, "enableBrowserFeature") /\ ~checkModernBrowserFeatures(req)
        THEN Deny("browser-feature")
    ELSE IF flagOn(cfg, "enableUserAgent") /\ ~isValidBrowser(req.headers.userAgent)
        THEN Deny("user-agent")
    ELSE IF /\ flagOn(cfg, "enableReferrer")
            /\ ~Truthy(getReferrer(req))
            /\ ~Includes(req.path, <<"i", "n", "d", "e", "x", ".", "h", "t", "m", "l">>)
        THEN Deny("referrer")
    ELSE IF flagOn(cfg, "enableJsCheck") /\ ~hasJsCheck(req) THEN Challenge
    ELSE Allow

\* the cookie challenge placed before the three deny checks
validateDownloadRequest_ChallengeFirst(req, cfg) ==
    IF ~isFileDownload(req) THEN Allow
    ELSE IF referrerAllowed(req, cfg) THEN Allow
    ELSE IF flagOn(cfg, "enableJsCheck") /\ ~hasJsCheck(req) THEN Challenge
    ELSE IF flagOn(cfg, "enableUserAgent") /\ ~isValidBrowser(req.headers.userAgent)
        THEN Deny("user-agent")
    ELSE IF flagOn(cfg, "enableBrowserFeature") /\ ~checkModernBrowserFeatures(req)
        THEN Deny("browser-feature")
    ELSE IF /\ flagOn(cfg, "enableReferrer")
            /\ ~Truthy(getReferrer(req))
            /\ ~Includes(req.path, <<"i", "n", "d", "e", "x", ".", "h", "t", "m", "l">>)
        THEN Deny("referrer")
    ELSE Allow

\* a download refused when the request has no geolocation (req.ipInfo is null)
validateDownloadRequest_GeoFence(req, cfg) ==
    IF ~isFileDownload(req) THEN Allow
    ELSE IF req.ipInfo.tag = "null" THEN Deny("user-agent")
    ELSE IF referrerAllowed(req, cfg) THEN Allow
    ELSE IF flagOn(cfg, "enableUserAgent") /\ ~isValidBrowser(req.headers.userAgent)
        THEN Deny("user-agent")
    ELSE IF flagOn(cfg, "enableBrowserFeature") /\ ~checkModernBrowserFeatures(req)
        THEN Deny("browser-feature")
    ELSE IF /\ flagOn(cfg, "enableReferrer")
            /\ ~Truthy(getReferrer(req))
            /\ ~Includes(req.path, <<"i", "n", "d", "e", "x", ".", "h", "t", "m", "l">>)
        THEN Deny("referrer")
    ELSE IF flagOn(cfg, "enableJsCheck") /\ ~hasJsCheck(req) THEN Challenge
    ELSE Allow

validateDownloadRequest(req, cfg) ==
    IF ~isFileDownload(req) THEN Allow
    ELSE IF referrerAllowed(req, cfg) THEN Allow
    ELSE IF flagOn(cfg, "enableUserAgent") /\ ~isValidBrowser(req.headers.userAgent)
        THEN Deny("user-agent")
    ELSE IF flagOn(cfg, "enableBrowserFeature") /\ ~checkModernBrowserFeatures(req)
        THEN Deny("browser-feature")
    ELSE IF /\ flagOn(cfg, "enableReferrer")
            /\ ~Truthy(getReferrer(req))
            /\ ~Includes(req.path, <<"i", "n", "d", "e", "x", ".", "h", "t", "m", "l">>)
        THEN Deny("referrer")
    ELSE IF flagOn(cfg, "enableJsCheck") /\ ~hasJsCheck(req) THEN Challenge
    ELSE Allow

---------------------------------------------------------------------------
(* JavaScript Map: a sequence of [key, value] entries in insertion order *)

MapKeys(m) == {m[i].key : i \in 1..Len(m)}
MapHas(m, k) == \E i \in 1..Len(m) : m[i].key = k
MapGet(m, k) == m[CHOOSE i \in 1..Len(m) : m[i].key = k].value
MapSize(m) == Len(m)
\* set keeps the place of a key the map already has, and appends a new one
MapSet(m, k, v) ==
    IF MapHas(m, k)
    THEN [i \in 1..Len(m) |-> IF m[i].key = k THEN [key |-> k, value |-> v] ELSE m[i]]
    ELSE Append(m, [key |-> k, value |-> v])
MapDelete(m, k) == SelectSeq(m, LAMBDA e : e.key # k)

---------------------------------------------------------------------------
(* src/hosting.js: the geolocation cache *)

\* client addresses, as getRealIP returns them (never empty)
IPs == 1..(MAX_CACHE_SIZE + 1)

\* null, stored for a lookup that threw
Null == [tag |-> "null", country |-> "", city |-> "", region |-> ""]
\* { country, city, region } destructured from response.data; a field the
\* body does not have is undefined
IpInfo(country, city, region) ==
    [tag |-> "object", country |-> country, city |-> city, region |-> region]

\* what axios.get(`https://ipinfo.io/${ip}`) can do: resolve with a body that
\* has the three fields, resolve with a 2xx body that lacks them (a string, or
\* JSON such as {"ip": ..., "bogon": true}), or reject (network error, non-2xx)
Outcomes == {"ok", "nofields", "reject"}

\* the scan of hosting.js:45-53 with > in place of <: evicts the newest
oldestIp_Newest(times) ==
    IF times = <<>> THEN 0
    ELSE times[CHOOSE i \in 1..Len(times) :
                  \A j \in 1..Len(times) :
                      times[j].value < times[i].value \/ (times[j].value = times[i].value /\ i <= j)].key

\* hosting.js:45-53: the first key, in iteration order, of the smallest time;
\* 0 stands for null (empty map)
oldestIp(times) ==
    IF times = <<>> THEN 0
    ELSE times[CHOOSE i \in 1..Len(times) :
                  \A j \in 1..Len(times) :
                      times[i].value < times[j].value \/ (times[i].value = times[j].value /\ i <= j)].key

\* the eviction run one entry before capacity
evictedInfo_Early(info, times) ==
    IF MapSize(info) >= MAX_CACHE_SIZE - 1 /\ oldestIp(times) # 0
    THEN MapDelete(info, oldestIp(times)) ELSE info

\* ipAccessTimes.delete(oldestIp) left out
evictedTimes_NoDelete(info, times) == times

\* hosting.js:44-59: the maps after the eviction block
evictedInfo(info, times) ==
    IF MapSize(info) >= MAX_CACHE_SIZE /\ oldestIp(times) # 0
    THEN MapDelete(info, oldestIp(times)) ELSE info
evictedTimes(info, times) ==
    IF MapSize(info) >= MAX_CACHE_SIZE /\ oldestIp(times) # 0
    THEN MapDelete(times, oldestIp(times)) ELSE times

\* the value getIPInfo stores and returns when the lookup ends (hosting.js:62-71)
lookupResult(outcome) ==
    CASE outcome = "ok" -> IpInfo("CN", "Shanghai", "Shanghai")
      [] outcome = "nofields" -> IpInfo("undefined", "undefined", "undefined")
      [] outcome = "reject" -> Null

---------------------------------------------------------------------------
(* src/hosting.js: the requests *)

Slots == 1..MaxInFlight

\* a request outside /files never meets the gate
NotGated == [kind |-> "NotGated", status |-> 0, reason |-> "", setsCookie |-> FALSE]

IdleSlot ==
    [pc |-> "idle", ip |-> 0, ipInfo |-> Null, visit |-> 0, verdict |-> NoResponse,
     served |-> FALSE]

---------------------------------------------------------------------------
(* Inputs of the gate *)

\* req.path below the mount point /files
Paths == { <<"/", "a", ".", "Z", "I", "P">>, <<"/", "i", "n", "d", "e", "x", ".", "h", "t", "m", "l">>, <<"/", ".", "g", "z">> }

Accepts == { Undefined, <<"t", "e", "x", "t", "/", "h", "t", "m", "l", ",", "i", "m", "a", "g", "e", "/", "w", "e", "b", "p">>, <<"a", "p", "p", "l", "i", "c", "a", "t", "i", "o", "n", "/", "o", "c", "t", "e", "t", "-", "s", "t", "r", "e", "a", "m">> }

Dispositions == { Undefined, <<"a", "t", "t", "a", "c", "h", "m", "e", "n", "t">> }

UserAgents ==
    { Undefined, <<"c", "u", "r", "l", "/", "8", ".", "4">>, <<"C", "h", "r", "o", "m", "e", "/", "1", "2", "0">>, <<"C", "h", "r", "o", "m", "e", "/", "6", "9">>, <<"A", "h", "r", "e", "f", "s", "B", "o", "t", " ", "C", "h", "r", "o", "m", "e", "/", "1", "2", "0">> }

\* <<Referrer header, Referer header>>
Referrers ==
    { <<Undefined, Undefined>>,
      <<Undefined, <<"h", "t", "t", "p", ":", "/", "/", "o", "t", "h", "e", "r", ".", "e", "x", "a", "m", "p", "l", "e", "/">>>>,
      <<Undefined, <<"h", "t", "t", "p", ":", "/", "/", "t", "r", "u", "s", "t", "e", "d", ".", "e", "x", "a", "m", "p", "l", "e", "/", "p">>>>,
      <<<<"h", "t", "t", "p", ":", "/", "/", "t", "r", "u", "s", "t", "e", "d", ".", "e", "x", "a", "m", "p", "l", "e", "/">>, <<"h", "t", "t", "p", ":", "/", "/", "o", "t", "h", "e", "r", ".", "e", "x", "a", "m", "p", "l", "e", "/">>>>,
      <<<<"h", "t", "t", "p", ":", "/", "/", "o", "t", "h", "e", "r", ".", "e", "x", "a", "m", "p", "l", "e", "/">>, <<"h", "t", "t", "p", ":", "/", "/", "t", "r", "u", "s", "t", "e", "d", ".", "e", "x", "a", "m", "p", "l", "e", "/", "p">>>> }

JsCookies == { Undefined, <<"t", "r", "u", "e">> }

\* the headers only the feature score reads
ScoreHeaders ==
    { [acceptLanguage |-> Undefined, acceptEncoding |-> Undefined,
       secFetchDest |-> Undefined, secFetchMode |-> Undefined, secFetchSite |-> Undefined,
       secChUa |-> Undefined, connection |-> Undefined,
       upgradeInsecureRequests |-> Undefined, cacheControl |-> Undefined],
      [acceptLanguage |-> <<"e", "n">>, acceptEncoding |-> <<"g", "z", "i", "p", ",", " ", "d", "e", "f", "l", "a", "t", "e">>,
       secFetchDest |-> Undefined, secFetchMode |-> Undefined, secFetchSite |-> Undefined,
       secChUa |-> Undefined, connection |-> <<"c", "l", "o", "s", "e">>,
       upgradeInsecureRequests |-> Undefined, cacheControl |-> <<"n", "o", "-", "c", "a", "c", "h", "e">>],
      [acceptLanguage |-> <<"e", "n">>, acceptEncoding |-> <<"g", "z", "i", "p", ",", " ", "d", "e", "f", "l", "a", "t", "e", ",", " ", "b", "r">>,
       secFetchDest |-> <<"d", "o", "c", "u", "m", "e", "n", "t">>, secFetchMode |-> <<"n", "a", "v", "i", "g", "a", "t", "e">>, secFetchSite |-> <<"n", "o", "n", "e">>,
       secChUa |-> <<"C", "h", "r", "o", "m", "i", "u", "m">>, connection |-> <<"k", "e", "e", "p", "-", "a", "l", "i", "v", "e">>,
       upgradeInsecureRequests |-> <<"1">>, cacheControl |-> <<"m", "a", "x", "-", "a", "g", "e", "=", "0">>] }

MakeRequest(path, accept, disposition, userAgent, ref, cookie, sh) ==
    [path |-> path,
     cookies |-> [jsEnabled |-> cookie],
     headers |-> [accept |-> accept, contentDisposition |-> disposition,
                  userAgent |-> userAgent, referrer |-> ref[1], referer |-> ref[2],
                  acceptLanguage |-> sh.acceptLanguage, acceptEncoding |-> sh.acceptEncoding,
                  secFetchDest |-> sh.secFetchDest, secFetchMode |-> sh.secFetchMode,
                  secFetchSite |-> sh.secFetchSite, secChUa |-> sh.secChUa,
                  connection |-> sh.connection,
                  upgradeInsecureRequests |-> sh.upgradeInsecureRequests,
                  cacheControl |-> sh.cacheControl]]

Requests ==
    { MakeRequest(p, a, d, u, r, c, sh) :
        p \in Paths, a \in Accepts, d \in Dispositions, u \in UserAgents,
        r \in Referrers, c \in JsCookies, sh \in ScoreHeaders }

Flags == {"enableReferrer", "enableUserAgent", "enableBrowserFeature", "enableJsCheck"}

\* config.json without a downloadCheck object
NoDownloadCheck ==
    [hasDownloadCheck |-> FALSE,
     downloadCheck |-> [enableReferrer |-> FALSE, enableUserAgent |-> FALSE,
                        enableBrowserFeature |-> FALSE, enableJsCheck |-> FALSE,
                        domainsIsArray |-> FALSE, allowedRefDomains |-> <<>>]]

DomainLists == { <<FALSE, <<>> >>, <<TRUE, << <<"c", "d", "n", ".", "e", "x", "a", "m", "p", "l", "e">>, <<"t", "r", "u", "s", "t", "e", "d", ".", "e", "x", "a", "m", "p", "l", "e">> >> >> }

Configs ==
    {NoDownloadCheck} \cup
    { [hasDownloadCheck |-> TRUE,
       downloadCheck |-> [enableReferrer |-> r, enableUserAgent |-> u,
                          enableBrowserFeature |-> b, enableJsCheck |-> j,
                          domainsIsArray |-> d[1], allowedRefDomains |-> d[2]]] :
        r \in BOOLEAN, u \in BOOLEAN, b \in BOOLEAN, j \in BOOLEAN, d \in DomainLists }

---------------------------------------------------------------------------
(* A client visit to the gate: the request, the response, and the reload the *)
(* challenge page triggers                                                  *)

\* the cache side at rest
CacheIdle ==
    /\ ipInfoCache = <<>>
    /\ ipAccessTimes = <<>>
    /\ now = 0
    /\ reqs = <<>>
    /\ arrivals = 0

GateInit ==
    /\ config \in Configs
    /\ greq \in Requests
    /\ gres = NoResponse
    /\ ghist = <<>>
    /\ CacheIdle

\* the client holds the cookie the challenge page sets
\* (check-download.js:173)
ProofCookiePresent(req) == req.cookies.jsEnabled = <<"t", "r", "u", "e">>

\* the server evaluates the gate on the request (check-download.js:111-187)
GateEvaluate ==
    /\ gres = NoResponse
    /\ Len(ghist) < MaxGateRequests
    /\ gres' = validateDownloadRequest(greq, config)
    /\ ghist' = Append(ghist, [cookie |-> ProofCookiePresent(greq), kind |-> gres'.kind])
    /\ UNCHANGED <<config, greq, cacheVars>>

\* the challenge page's script: document.cookie = "jsEnabled=true";
\* window.location.reload()  (check-download.js:172-175)
ClientReload ==
    /\ gres.setsCookie
    /\ greq' = [greq EXCEPT !.cookies.jsEnabled = <<"t", "r", "u", "e">>]
    /\ gres' = NoResponse
    /\ UNCHANGED <<config, ghist, cacheVars>>

\* the client sends the identical request again
ClientRepeat ==
    /\ gres # NoResponse
    /\ Len(ghist) < MaxGateRequests
    /\ gres' = NoResponse
    /\ UNCHANGED <<config, greq, ghist, cacheVars>>

GateNext == GateEvaluate \/ ClientReload \/ ClientRepeat

GateSpec == GateInit /\ [][GateNext]_vars

\* One evaluation of the gate, on the requests above and on requests whose
\* path holds the name of the index page without being the index page
IndexNamePaths == { <<"/", "i", "n", "d", "e", "x", ".", "h", "t", "m", "l", ".", "z", "i", "p">>, <<"/", "i", "n", "d", "e", "x", ".", "h", "t", "m", "l", "/", "a", ".", "z", "i", "p">> }

VerdictRequests ==
    Requests \cup
    { MakeRequest(p, a, d, u, r, c, sh) :
        p \in IndexNamePaths, a \in Accepts, d \in Dispositions, u \in UserAgents,
        r \in Referrers, c \in JsCookies, sh \in ScoreHeaders }

VerdictInit ==
    /\ config \in Configs
    /\ greq \in VerdictRequests
    /\ gres = NoResponse
    /\ ghist = <<>>
    /\ CacheIdle

VerdictSpec == VerdictInit /\ [][GateEvaluate]_vars

\* One evaluation of the gate on download requests that differ in the headers
\* checkModernBrowserFeatures reads (check-download.js:48-73)
FeatureAccepts ==
    { Undefined, <<"*", "/", "*">>, <<"t", "e", "x", "t", "/", "h", "t", "m", "l">>, <<"i", "m", "a", "g", "e", "/", "w", "e", "b", "p">>, <<"t", "e", "x", "t", "/", "h", "t", "m", "l", ",", "i", "m", "a", "g", "e", "/", "w", "e", "b", "p">> }

FeatureEncodings ==
    { Undefined, <<"g", "z", "i", "p">>, <<"g", "z", "i", "p", ",", " ", "d", "e", "f", "l", "a", "t", "e">>, <<"g", "z", "i", "p", ",", " ", "b", "r">>, <<"d", "e", "f", "l", "a", "t", "e", ",", " ", "b", "r">>,
      <<"g", "z", "i", "p", ",", " ", "d", "e", "f", "l", "a", "t", "e", ",", " ", "b", "r">> }

FeatureHeaders ==
    [acceptLanguage : {Undefined, <<"e", "n">>},
     acceptEncoding : FeatureEncodings,
     secFetchDest : {Undefined, <<"d", "o", "c", "u", "m", "e", "n", "t">>},
     secFetchMode : {Undefined, <<"n", "a", "v", "i", "g", "a", "t", "e">>},
     secFetchSite : {Undefined, <<"n", "o", "n", "e">>},
     secChUa : {Undefined, <<"C", "h", "r", "o", "m", "i", "u", "m">>},
     connection : {Undefined, <<"k", "e", "e", "p", "-", "a", "l", "i", "v", "e">>, <<"c", "l", "o", "s", "e">>},
     upgradeInsecureRequests : {Undefined, <<"1">>, <<"0">>},
     cacheControl : {Undefined, <<"n", "o", "-", "c", "a", "c", "h", "e">>}]

FeatureRequests ==
    { MakeRequest(<<"/", "a", ".", "Z", "I", "P">>, a, Undefined, u, <<Undefined, Undefined>>, Undefined, sh) :
        a \in FeatureAccepts, u \in { <<"C", "h", "r", "o", "m", "e", "/", "1", "2", "0">>, <<"c", "u", "r", "l", "/", "8", ".", "4">> }, sh \in FeatureHeaders }

\* enableBrowserFeature on, the referrer steps off, the other two either way
FeatureConfigs ==
    { [hasDownloadCheck |-> TRUE,
       downloadCheck |-> [enableReferrer |-> FALSE, enableUserAgent |-> u,
                          enableBrowserFeature |-> TRUE, enableJsCheck |-> j,
                          domainsIsArray |-> FALSE, allowedRefDomains |-> <<>>]] :
        u \in BOOLEAN, j \in BOOLEAN }

FeatureInit ==
    /\ config \in FeatureConfigs
    /\ greq \in FeatureRequests
    /\ gres = NoResponse
    /\ ghist = <<>>
    /\ CacheIdle

FeatureSpec == FeatureInit /\ [][GateEvaluate]_vars

---------------------------------------------------------------------------
(* The server: enrichment middleware, geolocation lookup, gate *)

BrowserHeaders ==
    [acceptLanguage |-> <<"e", "n">>, acceptEncoding |-> <<"g", "z", "i", "p", ",", " ", "d", "e", "f", "l", "a", "t", "e", ",", " ", "b", "r">>,
     secFetchDest |-> <<"d", "o", "c", "u", "m", "e", "n", "t">>, secFetchMode |-> <<"n", "a", "v", "i", "g", "a", "t", "e">>, secFetchSite |-> <<"n", "o", "n", "e">>,
     secChUa |-> <<"C", "h", "r", "o", "m", "i", "u", "m">>, connection |-> <<"k", "e", "e", "p", "-", "a", "l", "i", "v", "e">>,
     upgradeInsecureRequests |-> <<"1">>, cacheControl |-> <<"m", "a", "x", "-", "a", "g", "e", "=", "0">>]

BareHeaders ==
    [acceptLanguage |-> Undefined, acceptEncoding |-> Undefined,
     secFetchDest |-> Undefined, secFetchMode |-> Undefined, secFetchSite |-> Undefined,
     secChUa |-> Undefined, connection |-> Undefined,
     upgradeInsecureRequests |-> Undefined, cacheControl |-> Undefined]

\* the requests the server receives: whether the URL is under /files, and the
\* request the gate then sees
Visits ==
    << [mounted |-> TRUE,
        req |-> MakeRequest(<<"/", "a", ".", "Z", "I", "P">>, Undefined, Undefined, <<"c", "u", "r", "l", "/", "8", ".", "4">>,
                            <<Undefined, Undefined>>, Undefined, BareHeaders)],
       [mounted |-> TRUE,
        req |-> MakeRequest(<<"/", "a", ".", "Z", "I", "P">>, <<"t", "e", "x", "t", "/", "h", "t", "m", "l", ",", "i", "m", "a", "g", "e", "/", "w", "e", "b", "p">>, Undefined, <<"C", "h", "r", "o", "m", "e", "/", "1", "2", "0">>,
                            <<Undefined, <<"h", "t", "t", "p", ":", "/", "/", "o", "t", "h", "e", "r", ".", "e", "x", "a", "m", "p", "l", "e", "/">>>>, <<"t", "r", "u", "e">>, BrowserHeaders)],
       [mounted |-> TRUE,
        req |-> MakeRequest(<<"/", "a", ".", "Z", "I", "P">>, <<"t", "e", "x", "t", "/", "h", "t", "m", "l", ",", "i", "m", "a", "g", "e", "/", "w", "e", "b", "p">>, Undefined, <<"C", "h", "r", "o", "m", "e", "/", "1", "2", "0">>,
                            <<Undefined, <<"h", "t", "t", "p", ":", "/", "/", "o", "t", "h", "e", "r", ".", "e", "x", "a", "m", "p", "l", "e", "/">>>>, Undefined, BrowserHeaders)],
       [mounted |-> FALSE,
        req |-> MakeRequest(<<"/">>, <<"t", "e", "x", "t", "/", "h", "t", "m", "l", ",", "i", "m", "a", "g", "e", "/", "w", "e", "b", "p">>, Undefined, <<"C", "h", "r", "o", "m", "e", "/", "1", "2", "0">>,
                            <<Undefined, Undefined>>, Undefined, BrowserHeaders)] >>

AllChecksOn ==
    [hasDownloadCheck |-> TRUE,
     downloadCheck |-> [enableReferrer |-> TRUE, enableUserAgent |-> TRUE,
                        enableBrowserFeature |-> TRUE, enableJsCheck |-> TRUE,
                        domainsIsArray |-> TRUE,
                        allowedRefDomains |-> << <<"c", "d", "n", ".", "e", "x", "a", "m", "p", "l", "e">>, <<"t", "r", "u", "s", "t", "e", "d", ".", "e", "x", "a", "m", "p", "l", "e">> >>]]

\* the gate session at rest
GateIdle ==
    /\ greq = Visits[1].req
    /\ gres = NoResponse
    /\ ghist = <<>>

Init ==
    /\ config = AllChecksOn
    /\ ipInfoCache = <<>>
    /\ ipAccessTimes = <<>>
    /\ now = 0
    /\ reqs = [r \in Slots |-> IdleSlot]
    /\ arrivals = 0
    /\ GateIdle

\* JavaScript runs a handler to completion: while a request is between the
\* enrichment middleware's next() and the handler next() calls, no other event
\* is served
NoHandlerRunning == \A q \in Slots : reqs[q].pc \notin {"next", "static"}

Arrived(r, ip, v, pc, info) ==
    [reqs EXCEPT ![r] = [pc |-> pc, ip |-> ip, ipInfo |-> info, visit |-> v,
                         verdict |-> NoResponse, served |-> FALSE]]

\* A request arrives and takes the first free slot; addresses are numbered in
\* the order they first appear, so the k-th request comes from one of 1..k.
\* The middleware of hosting.js:76-87 up to its await, and
\* getIPInfo (hosting.js:36-61) up to the await of axios.get
Enrich(r, ip, v) ==
    /\ NoHandlerRunning
    /\ reqs[r].pc = "idle"
    /\ \A q \in Slots : q < r => reqs[q].pc # "idle"
    /\ arrivals < MaxArrivals
    /\ ip <= arrivals + 1
    /\ arrivals' = arrivals + 1
    /\ IF MapHas(ipInfoCache, ip)
       THEN \* hosting.js:83-84: req.ipInfo = ipInfoCache.get(ip)
            /\ reqs' = Arrived(r, ip, v, "next", MapGet(ipInfoCache, ip))
            /\ UNCHANGED <<ipInfoCache, ipAccessTimes>>
       ELSE \* hosting.js:86: getIPInfo(ip)
            IF MapHas(ipInfoCache, ip)
            THEN \* hosting.js:37-40
                 /\ ipAccessTimes' = MapSet(ipAccessTimes, ip, now)
                 /\ reqs' = Arrived(r, ip, v, "next", MapGet(ipInfoCache, ip))
                 /\ UNCHANGED ipInfoCache
            ELSE \* hosting.js:44-61
                 /\ ipInfoCache' = evictedInfo(ipInfoCache, ipAccessTimes)
                 /\ ipAccessTimes' = evictedTimes(ipInfoCache, ipAccessTimes)
                 /\ reqs' = Arrived(r, ip, v, "await", Null)
    /\ UNCHANGED <<config, now, gateVars>>

\* The lookup ends: hosting.js:62-72, then the middleware resumes at :86
LookupReturns(r, outcome) ==
    /\ NoHandlerRunning
    /\ reqs[r].pc = "await"
    /\ ipInfoCache' = MapSet(ipInfoCache, reqs[r].ip, lookupResult(outcome))
    /\ ipAccessTimes' = MapSet(ipAccessTimes, reqs[r].ip, now)
    /\ reqs' = [reqs EXCEPT ![r].pc = "next", ![r].ipInfo = lookupResult(outcome)]
    /\ UNCHANGED <<config, now, arrivals, gateVars>>

\* the request once its handler has answered: the enrichment's locals are no
\* longer read
Answered(r, verdict) ==
    [reqs EXCEPT ![r] = [pc |-> "done", ip |-> 0, ipInfo |-> Null,
                         visit |-> reqs[r].visit, verdict |-> verdict,
                         served |-> reqs[r].served]]

\* the request object the gate receives: the client's request with the
\* req.ipInfo the enrichment middleware attached (hosting.js:84, 86)
Enriched(req, info) ==
    [path |-> req.path, cookies |-> req.cookies, headers |-> req.headers, ipInfo |-> info]

\* the challenge page sent and next() called after it (a missing return)
callsNext_AfterChallenge(verdict) == verdict.kind \in {"Allow", "Challenge"}

\* whether validateDownloadRequest has called next(): it does on its three
\* allowing paths (check-download.js:114, 137, 186) and returns the result of
\* res.send on the others
callsNext(verdict) == verdict.kind = "Allow"

\* next() reaches app.use("/files", validateDownloadRequest, ...)
\* (hosting.js:97, 128-133); when the gate calls next() the chain goes on to
\* the content server, otherwise the response has been sent
GateStep(r) ==
    /\ reqs[r].pc = "next"
    /\ Visits[reqs[r].visit].mounted
    /\ LET verdict == validateDownloadRequest(
                          Enriched(Visits[reqs[r].visit].req, reqs[r].ipInfo), config)
       IN  reqs' = IF callsNext(verdict)
                   THEN [reqs EXCEPT ![r].pc = "static", ![r].verdict = verdict]
                   ELSE Answered(r, verdict)
    /\ UNCHANGED <<config, ipInfoCache, ipAccessTimes, now, arrivals, gateVars>>

\* the gate's next() enters throttle and staticMiddleware (hosting.js:130, 132)
ContentServer(r) ==
    /\ reqs[r].pc = "static"
    /\ reqs' = [reqs EXCEPT ![r] = [pc |-> "done", ip |-> 0, ipInfo |-> Null,
                                    visit |-> reqs[r].visit, verdict |-> reqs[r].verdict,
                                    served |-> TRUE]]
    /\ UNCHANGED <<config, ipInfoCache, ipAccessTimes, now, arrivals, gateVars>>

\* next() reaches a route outside /files (hosting.js:166, 264, 302)
OtherRoute(r) ==
    /\ reqs[r].pc = "next"
    /\ ~Visits[reqs[r].visit].mounted
    /\ reqs' = Answered(r, NotGated)
    /\ UNCHANGED <<config, ipInfoCache, ipAccessTimes, now, arrivals, gateVars>>

\* the response is sent and logged (hosting.js:93-95)
Finish(r) ==
    /\ NoHandlerRunning
    /\ reqs[r].pc = "done"
    /\ reqs' = [reqs EXCEPT ![r] = IdleSlot]
    /\ UNCHANGED <<config, ipInfoCache, ipAccessTimes, now, arrivals, gateVars>>

\* a millisecond passes on the clock Date.now() reads
Tick ==
    /\ NoHandlerRunning
    /\ now < MaxTime
    /\ now' = now + 1
    /\ UNCHANGED <<config, ipInfoCache, ipAccessTimes, reqs, arrivals, gateVars>>

Next ==
    \/ \E r \in Slots, ip \in IPs, v \in 1..Len(Visits) : Enrich(r, ip, v)
    \/ \E r \in Slots, o \in Outcomes : LookupReturns(r, o)
    \/ \E r \in Slots : GateStep(r)
    \/ \E r \in Slots : ContentServer(r)
    \/ \E r \in Slots : OtherRoute(r)
    \/ \E r \in Slots : Finish(r)
    \/ Tick

Spec == Init /\ [][Next]_vars

\* The server with the clock at rest, up to the finish events of its
\* responses: the requests, their lookups, the gate and the content server
RequestNext ==
    \/ \E r \in Slots, ip \in IPs, v \in 1..Len(Visits) : Enrich(r, ip, v)
    \/ \E r \in Slots, o \in Outcomes : LookupReturns(r, o)
    \/ \E r \in Slots : GateStep(r)
    \/ \E r \in Slots : ContentServer(r)
    \/ \E r \in Slots : OtherRoute(r)

RequestSpec == Init /\ [][RequestNext]_vars

\* The server when every request is for a route outside /files: the cache
\* code reads only the request's address, so this is the cache on its own
CacheNext ==
    \/ \E r \in Slots, ip \in IPs : Enrich(r, ip, Len(Visits))
    \/ \E r \in Slots, o \in Outcomes : LookupReturns(r, o)
    \/ \E r \in Slots : OtherRoute(r)
    \/ \E r \in Slots : Finish(r)
    \/ Tick

CacheSpec == Init /\ [][CacheNext]_vars

---------------------------------------------------------------------------
(* Properties of the geolocation cache and the server, stated for Spec and *)
(* CacheSpec                                                               *)

\* request r arrives in this step and is answered from the cache
HitStep(r) == reqs[r].pc = "idle" /\ reqs'[r].pc = "next"

\* request r arrives in this step and starts an external lookup
MissStep(r) == reqs[r].pc = "idle" /\ reqs'[r].pc = "await"

\* the lookup of request r ends in this step
ReturnStep(r) == reqs[r].pc = "await" /\ reqs'[r].pc = "next"

\* the addresses this step removes from the cache
Removed == MapKeys(ipAccessTimes) \ MapKeys(ipAccessTimes')

\* the map's times grow strictly in insertion order
StrictlyIncreasing(times) ==
    \A i, j \in 1..Len(times) : i < j => times[i].value < times[j].value

\* C1: the cache never holds more than MAX_CACHE_SIZE addresses, whatever the
\* interleaving of the lookups.
C1_CacheBounded == MapSize(ipInfoCache) <= MAX_CACHE_SIZE

\* C2: a request whose address is in the cache sets that address's access
\* time to the current time, so that the address is not the next one to be
\* evicted when another entry was last accessed before this request.
C2_HitRefreshesTimestamp ==
    [][\A r \in Slots :
          HitStep(r) =>
              /\ MapGet(ipAccessTimes', reqs'[r].ip) = now
              /\ (\E i \in 1..Len(ipAccessTimes') :
                      /\ ipAccessTimes'[i].key # reqs'[r].ip
                      /\ ipAccessTimes'[i].value < now)
                  => oldestIp(ipAccessTimes') # reqs'[r].ip]_vars

\* C3: a miss that finds the cache at capacity removes exactly one entry, and
\* no other entry present at the scan has a smaller access time; when the
\* access times grow strictly in insertion order (addresses looked up one
\* after the other), that entry is the first one inserted.  No other step
\* removes an entry.
C3_EvictsOldest ==
    [][/\ \A r \in Slots :
            (MissStep(r) /\ MapSize(ipInfoCache) >= MAX_CACHE_SIZE) =>
                \E a \in MapKeys(ipAccessTimes) :
                    /\ Removed = {a}
                    /\ MapKeys(ipInfoCache) \ MapKeys(ipInfoCache') = {a}
                    /\ \A i \in 1..Len(ipAccessTimes) :
                          MapGet(ipAccessTimes, a) <= ipAccessTimes[i].value
                    /\ StrictlyIncreasing(ipAccessTimes) => a = ipAccessTimes[1].key
       /\ Removed # {} => \E r \in Slots :
                             MissStep(r) /\ MapSize(ipInfoCache) >= MAX_CACHE_SIZE]_vars

\* C3 witness: addresses 1..MAX_CACHE_SIZE+1 arrived in this order
\* (the k-th request comes from one of 1..k), each lookup of the first
\* MAX_CACHE_SIZE ended at a later clock value than the one before, and the
\* miss of the last one has evicted address 1 and nothing else.
C3_Witness ==
    /\ arrivals = MAX_CACHE_SIZE + 1
    /\ reqs[1].pc = "await" /\ reqs[1].ip = MAX_CACHE_SIZE + 1
    /\ \A r \in Slots \ {1} : reqs[r].pc = "idle"
    /\ MapKeys(ipInfoCache) = 2..MAX_CACHE_SIZE
    /\ MapKeys(ipAccessTimes) = 2..MAX_CACHE_SIZE
    /\ StrictlyIncreasing(ipAccessTimes)
    /\ \A i \in 1..Len(ipAccessTimes) : ipAccessTimes[i].value >= 1

\* the lookup outcomes the specification counts as failures
FailedOutcomes == {"nofields", "reject"}

\* a failed lookup stores the absent-marker and hands it to the request,
\* which goes on
C4_FailureStoresAbsentMarker ==
    \A r \in Slots, o \in FailedOutcomes :
        LookupReturns(r, o) =>
            /\ MapGet(ipInfoCache', reqs[r].ip) = Null
            /\ reqs'[r].ipInfo = Null
            /\ reqs'[r].pc = "next"

\* an absent-marker stays until its address is evicted
C4_AbsentMarkerKept ==
    \A a \in IPs :
        (MapHas(ipInfoCache, a) /\ MapGet(ipInfoCache, a) = Null /\ MapHas(ipInfoCache', a))
            => MapGet(ipInfoCache', a) = Null

\* a request whose address holds the absent-marker makes no external call
\* and gets the absent-marker
C4_AbsentMarkerServed ==
    \A r \in Slots, a \in IPs, v \in 1..Len(Visits) :
        (Enrich(r, a, v) /\ MapHas(ipInfoCache, a) /\ MapGet(ipInfoCache, a) = Null)
            => (reqs'[r].pc = "next" /\ reqs'[r].ipInfo = Null)

\* C4: a failed external lookup for an address stores the absent-marker and
\* returns it without an error; until the address is evicted every later
\* lookup of it makes no external call and returns the absent-marker.
C4_FailedLookupCached ==
    [][C4_FailureStoresAbsentMarker /\ C4_AbsentMarkerKept /\ C4_AbsentMarkerServed]_vars

\* the part of C4 that concerns concurrent lookups of one address
C4_AbsentMarkerNeverOverwritten == [][C4_AbsentMarkerKept]_vars

\* the part of C4 that the code satisfies: a rejected lookup stores null, and
\* a request for an address that holds null makes no external call
C4_RejectedLookupCached ==
    [][/\ \A r \in Slots : LookupReturns(r, "reject") =>
              (MapGet(ipInfoCache', reqs[r].ip) = Null /\ reqs'[r].ipInfo = Null)
       /\ C4_AbsentMarkerServed]_vars

\* C9: the gate is not blocked by the request's geolocation lookup: a request
\* under /files whose lookup is pending can be given its verdict.
C9_GateNotBlockedByLookup ==
    \A r \in Slots :
        (reqs[r].pc = "await" /\ Visits[reqs[r].visit].mounted) => ENABLED GateStep(r)

\* a request under /files
Mounted(r) == reqs[r].visit # 0 /\ Visits[reqs[r].visit].mounted

\* the outcomes of a gate evaluation that request r shows
PassedToContentServer(r) == reqs[r].served
ErrorResponse(r) == reqs[r].verdict.status = 403
ChallengePage(r) == reqs[r].verdict.setsCookie

\* C13: the content server is reached for a request under /files if and only
\* if the gate's verdict is Allow, and an evaluation of the gate has exactly
\* one outcome: the request is passed to the content server, or a 403
\* response is sent, or the challenge page is sent.
C13_ServedIffAllowed ==
    \A r \in Slots :
        /\ reqs[r].served => (Mounted(r) /\ reqs[r].verdict.kind = "Allow")
        /\ (reqs[r].pc = "done" /\ Mounted(r)) =>
              /\ PassedToContentServer(r) <=> reqs[r].verdict.kind = "Allow"
              /\ ErrorResponse(r) <=> reqs[r].verdict.kind = "Deny"
              /\ ChallengePage(r) <=> reqs[r].verdict.kind = "Challenge"
              /\ Point(PassedToContentServer(r)) + Point(ErrorResponse(r))
                    + Point(ChallengePage(r)) = 1

\* C13 witness: of two requests under /files, one was challenged and did not
\* reach the content server and the other was allowed and reached it.
C13_Witness ==
    \E r, q \in Slots :
        /\ reqs[r].pc = "done" /\ Mounted(r)
        /\ reqs[r].verdict.kind = "Challenge" /\ ~reqs[r].served
        /\ reqs[q].pc = "done" /\ Mounted(q)
        /\ reqs[q].verdict.kind = "Allow" /\ reqs[q].served

\* the verdict of each request under /files that the server receives
ExpectedVerdicts == << Deny("user-agent"), Allow, Challenge >>

\* C18: evaluating the gate changes neither the cache's entries nor its
\* access times, and the verdict does not depend on the cache: it is the
\* same as that of every other request, evaluated before under another
\* content of the cache and with another lookup result, that carries the
\* same request data, and the same in every state of the cache.
C18_GateIndependentOfGeoCache ==
    [][\A r \in Slots :
          GateStep(r) =>
              /\ ipInfoCache' = ipInfoCache
              /\ ipAccessTimes' = ipAccessTimes
              /\ reqs'[r].verdict = ExpectedVerdicts[reqs[r].visit]
              /\ \A q \in Slots \ {r} :
                    (reqs[q].pc = "done" /\ reqs[q].visit = reqs[r].visit)
                        => reqs'[r].verdict = reqs[q].verdict]_vars

\* C18 witness: two requests with the same data, from two addresses, were
\* both denied; the lookup of one address gave a location and that of the
\* other failed, and the second was evaluated with one more entry in the
\* cache.
C18_Witness ==
    /\ arrivals = 2
    /\ \A r \in {1, 2} : reqs[r].pc = "done" /\ reqs[r].visit = 1
                            /\ reqs[r].verdict = Deny("user-agent")
    /\ MapKeys(ipInfoCache) = {1, 2}
    /\ MapGet(ipInfoCache, 1) # Null
    /\ MapGet(ipInfoCache, 2) = Null

\* the addresses this step removes from either map
Gone == Removed \cup (MapKeys(ipInfoCache) \ MapKeys(ipInfoCache'))

\* C19: an entry leaves the cache only in a miss that finds the cache at
\* capacity, and such a miss removes exactly one; a hit, a miss below capacity
\* and the end of a lookup remove nothing, and neither does the passing of
\* time.
C19_EvictionOnlyAtCapacity ==
    [][/\ Gone # {} =>
             \E r \in Slots : MissStep(r) /\ MapSize(ipInfoCache) >= MAX_CACHE_SIZE
       /\ \A r \in Slots :
             /\ (MissStep(r) /\ MapSize(ipInfoCache) >= MAX_CACHE_SIZE)
                    => Cardinality(Gone) = 1
             /\ (MissStep(r) /\ MapSize(ipInfoCache) < MAX_CACHE_SIZE) => Gone = {}
             /\ HitStep(r) => Gone = {}
             /\ ReturnStep(r) => Gone = {}
       /\ now' # now => (ipInfoCache' = ipInfoCache /\ ipAccessTimes' = ipAccessTimes)]_vars

\* C19 witness: the entries stored at time 0 were all still cached when the
\* clock had reached MaxTime; the next new address then found the cache at
\* capacity and its miss removed one of them.
C19_Witness ==
    /\ now = MaxTime
    /\ arrivals = MAX_CACHE_SIZE + 1
    /\ reqs[1].pc = "await" /\ reqs[1].ip = MAX_CACHE_SIZE + 1
    /\ MapSize(ipInfoCache) = MAX_CACHE_SIZE - 1
    /\ MapKeys(ipInfoCache) = 2..MAX_CACHE_SIZE
    /\ \A i \in 1..Len(ipAccessTimes) : ipAccessTimes[i].value = 0

\* C20: the value map and the access-time map hold the same addresses, each
\* once, in every state and whatever the interleaving of the lookups.
C20_MapsHoldSameAddresses ==
    /\ MapKeys(ipInfoCache) = MapKeys(ipAccessTimes)
    /\ Cardinality(MapKeys(ipInfoCache)) = MapSize(ipInfoCache)
    /\ Cardinality(MapKeys(ipAccessTimes)) = MapSize(ipAccessTimes)

\* C20 witness: two lookups that ran at the same time, started one entry
\* below capacity, have both stored their address, and the two maps hold the
\* same MAX_CACHE_SIZE + 1 addresses.
C20_Witness ==
    /\ arrivals = MAX_CACHE_SIZE + 1
    /\ \A r \in Slots : reqs[r].pc = "done"
    /\ MapKeys(ipInfoCache) = 1..(MAX_CACHE_SIZE + 1)
    /\ MapKeys(ipAccessTimes) = 1..(MAX_CACHE_SIZE + 1)

---------------------------------------------------------------------------
(* Properties of the gate, stated for GateSpec *)

Evaluated == gres # NoResponse

\* the three download indicators, read off the request
HasDownloadExtension(req) == ToLowerCase(extname(req.path)) \in fileExts
AcceptIndicatesDownload(req) ==
    /\ req.headers.accept # Undefined
    /\ \/ Includes(req.headers.accept, <<"a", "p", "p", "l", "i", "c", "a", "t", "i", "o", "n", "/", "o", "c", "t", "e", "t", "-", "s", "t", "r", "e", "a", "m">>)
       \/ Includes(req.headers.accept, <<"a", "t", "t", "a", "c", "h", "m", "e", "n", "t">>)
DispositionIndicatesDownload(req) ==
    /\ req.headers.contentDisposition # Undefined
    /\ Includes(req.headers.contentDisposition, <<"a", "t", "t", "a", "c", "h", "m", "e", "n", "t">>)
DownloadAttempt(req) ==
    HasDownloadExtension(req) \/ AcceptIndicatesDownload(req) \/ DispositionIndicatesDownload(req)

\* the referrer holds one of the configured allowed domains
ReferrerHoldsAllowedDomain(req, cfg) ==
    /\ getReferrer(req) # Undefined
    /\ \E k \in 1..Len(cfg.downloadCheck.allowedRefDomains) :
          Includes(getReferrer(req), cfg.downloadCheck.allowedRefDomains[k])

UserAgentOnDenylist(req) ==
    /\ req.headers.userAgent # Undefined
    /\ \E k \in 1..Len(blockedUserAgents) :
          Includes(ToLowerCase(req.headers.userAgent), blockedUserAgents[k])

\* every enabled one of the user-agent, header-feature and referrer-presence
\* checks passes
HardChecksPass(req, cfg) ==
    /\ flagOn(cfg, "enableUserAgent") => isValidBrowser(req.headers.userAgent)
    /\ flagOn(cfg, "enableBrowserFeature") => browserFeatureScore(req) >= minScore
    /\ flagOn(cfg, "enableReferrer") =>
          (getReferrer(req) \notin {Undefined, <<>>} \/ Includes(req.path, <<"i", "n", "d", "e", "x", ".", "h", "t", "m", "l">>))

\* the user-agent names Chrome, Firefox, Safari, Edg or OPR in version 70 or
\* later
NamesModernBrowser(req) ==
    /\ req.headers.userAgent # Undefined
    /\ \E k \in 1..Len(modernBrowsers) :
          matchVersion(req.headers.userAgent, modernBrowsers[k]) >= minVersion

AllFlagsOff(cfg) == \A f \in Flags : ~(cfg.hasDownloadCheck /\ cfg.downloadCheck[f])

\* C5: a request that is not a download attempt (no download extension, no
\* octet-stream/attachment indicator in Accept, no attachment indicator in
\* Content-Disposition) is allowed, for every configuration and every other
\* header and cookie.
C5_NonDownloadAllowed ==
    (Evaluated /\ ~DownloadAttempt(greq)) => gres.kind = "Allow"

\* C5 witness: a non-download request with a denylisted user-agent, no referrer
\* and no cookie was allowed with every check enabled.
C5_Witness ==
    /\ Evaluated /\ ~DownloadAttempt(greq) /\ gres.kind = "Allow"
    /\ \A f \in Flags : flagOn(config, f)
    /\ UserAgentOnDenylist(greq)
    /\ getReferrer(greq) = Undefined
    /\ greq.cookies.jsEnabled = Undefined

\* C6: with enableReferrer on, a request whose referrer holds a configured
\* allowed domain is allowed, whatever the other checks would say.
C6_AllowlistedReferrerAllowed ==
    (Evaluated /\ flagOn(config, "enableReferrer") /\ ReferrerHoldsAllowedDomain(greq, config))
        => gres.kind = "Allow"

\* C6 witness: an allowlisted download request was allowed although the
\* user-agent check, the feature score and the cookie check are enabled and
\* would each fail.
C6_Witness ==
    /\ Evaluated /\ gres.kind = "Allow"
    /\ DownloadAttempt(greq)
    /\ ReferrerHoldsAllowedDomain(greq, config)
    /\ \A f \in Flags : flagOn(config, f)
    /\ ~isValidBrowser(greq.headers.userAgent)
    /\ browserFeatureScore(greq) < minScore
    /\ ~ProofCookiePresent(greq)

\* C7 as stated: with enableUserAgent on, a download attempt whose user-agent
\* matches a denylist pattern is denied whatever its headers are.
C7_DenylistedAlwaysDenied ==
    (Evaluated /\ flagOn(config, "enableUserAgent") /\ DownloadAttempt(greq)
        /\ UserAgentOnDenylist(greq))
        => gres.kind = "Deny"

\* C7 amended: with enableUserAgent on, a download attempt whose user-agent
\* matches a denylist pattern is denied by the user-agent step, unless
\* enableReferrer is on and its referrer holds a configured allowed domain.
C7_DenylistedDeniedUnlessAllowlisted ==
    (Evaluated /\ flagOn(config, "enableUserAgent") /\ DownloadAttempt(greq)
        /\ UserAgentOnDenylist(greq)
        /\ ~(flagOn(config, "enableReferrer") /\ ReferrerHoldsAllowedDomain(greq, config)))
        => (gres.kind = "Deny" /\ gres.status = 403 /\ gres.reason = "user-agent")

\* C7 witness: a denylisted user-agent that also names a modern browser, with
\* a full set of browser headers and the cookie, was denied.
C7_Witness ==
    /\ Evaluated /\ gres.kind = "Deny"
    /\ flagOn(config, "enableUserAgent") /\ DownloadAttempt(greq)
    /\ UserAgentOnDenylist(greq)
    /\ NamesModernBrowser(greq)
    /\ browserFeatureScore(greq) >= minScore
    /\ getReferrer(greq) # Undefined
    /\ ProofCookiePresent(greq)

\* C8: challenge convergence.  In a visit with enableJsCheck on whose request
\* is a download attempt that passes every enabled hard check (and is not let
\* through by the referrer allowlist), every evaluation without the proof
\* cookie answers Challenge and every evaluation with it answers Allow; so
\* the answers depend on the request alone, and after the reload that sets
\* the cookie they stay Allow.
C8_ChallengeConverges ==
    (/\ flagOn(config, "enableJsCheck")
     /\ DownloadAttempt(greq)
     /\ HardChecksPass(greq, config)
     /\ ~(flagOn(config, "enableReferrer") /\ ReferrerHoldsAllowedDomain(greq, config)))
    => /\ \A i \in 1..Len(ghist) :
             ghist[i].kind = IF ghist[i].cookie THEN "Allow" ELSE "Challenge"
       /\ \A i, j \in 1..Len(ghist) :
             (i < j /\ ghist[i].kind = "Allow") => ghist[j].kind = "Allow"

\* C8 witness: a visit answered Challenge, then Allow after the reload, then
\* Allow again.
C8_Witness ==
    /\ Len(ghist) = 3
    /\ ghist[1] = [cookie |-> FALSE, kind |-> "Challenge"]
    /\ ghist[2] = [cookie |-> TRUE, kind |-> "Allow"]
    /\ ghist[3] = [cookie |-> TRUE, kind |-> "Allow"]
    /\ DownloadAttempt(greq)
    /\ flagOn(config, "enableUserAgent") /\ flagOn(config, "enableBrowserFeature")
    /\ flagOn(config, "enableReferrer")

\* the flag that enables the step a verdict comes from
StepFlag(res) ==
    CASE res.kind = "Challenge" -> "enableJsCheck"
      [] res.kind = "Deny" /\ res.reason = "user-agent" -> "enableUserAgent"
      [] res.kind = "Deny" /\ res.reason = "browser-feature" -> "enableBrowserFeature"
      [] res.kind = "Deny" /\ res.reason = "referrer" -> "enableReferrer"

\* C10: a disabled step never denies or challenges.  With all four flags off,
\* or no downloadCheck object, the gate allows; and a Deny or Challenge comes
\* only from a step whose flag is on.
C10_DisabledStepNeverDenies ==
    Evaluated =>
        /\ AllFlagsOff(config) => gres.kind = "Allow"
        /\ gres.kind # "Allow" =>
              (config.hasDownloadCheck /\ config.downloadCheck[StepFlag(gres)])

\* C10 witness: a download attempt with a denylisted user-agent, no browser
\* headers, no referrer and no cookie was allowed because config.json has no
\* downloadCheck object.
C10_Witness ==
    /\ Evaluated /\ gres.kind = "Allow"
    /\ ~config.hasDownloadCheck
    /\ DownloadAttempt(greq)
    /\ UserAgentOnDenylist(greq)
    /\ browserFeatureScore(greq) < minScore
    /\ getReferrer(greq) = Undefined /\ ~Includes(greq.path, <<"i", "n", "d", "e", "x", ".", "h", "t", "m", "l">>)
    /\ ~ProofCookiePresent(greq)

\* C10 second witness: the same request was allowed with a downloadCheck
\* object whose four flags are off.
C10_WitnessFlagsOff ==
    /\ Evaluated /\ gres.kind = "Allow"
    /\ config.hasDownloadCheck /\ AllFlagsOff(config)
    /\ DownloadAttempt(greq)
    /\ UserAgentOnDenylist(greq)
    /\ ~ProofCookiePresent(greq)

\* the request is let through by the referrer allowlist (Step 1)
AllowlistBypass(req, cfg) ==
    flagOn(cfg, "enableReferrer") /\ ReferrerHoldsAllowedDomain(req, cfg)

\* the three deny steps, each read off the request
UserAgentStepFails(req) == ~(~UserAgentOnDenylist(req) /\ NamesModernBrowser(req))
FeatureStepFails(req) == browserFeatureScore(req) < minScore
ReferrerStepFails(req) ==
    getReferrer(req) \in {Undefined, <<>>} /\ ~Includes(req.path, <<"i", "n", "d", "e", "x", ".", "h", "t", "m", "l">>)

\* the reason of the first enabled step that fails, in the order user-agent,
\* header-feature, referrer-presence; "" when none fails
FirstFailingReason(req, cfg) ==
    IF flagOn(cfg, "enableUserAgent") /\ UserAgentStepFails(req) THEN "user-agent"
    ELSE IF flagOn(cfg, "enableBrowserFeature") /\ FeatureStepFails(req) THEN "browser-feature"
    ELSE IF flagOn(cfg, "enableReferrer") /\ ReferrerStepFails(req) THEN "referrer"
    ELSE ""

\* C11: every Deny carries status 403 and a non-empty reason, and the reason
\* is that of the first enabled step that fails in the order user-agent,
\* header-feature, referrer-presence; so the three reasons are pairwise
\* distinct and each names its step.
C11_DenyReasonNamesFirstFailingStep ==
    (Evaluated /\ gres.kind = "Deny") =>
        /\ gres.status = 403
        /\ gres.reason # ""
        /\ gres.reason = FirstFailingReason(greq, config)
        /\ gres.reason \in {"user-agent", "browser-feature", "referrer"}

\* C11 witness: with every check enabled, a request that passes the
\* user-agent step and fails both the header-feature and the
\* referrer-presence step was denied with the header-feature reason.
C11_Witness ==
    /\ Evaluated /\ gres.kind = "Deny" /\ gres.reason = "browser-feature"
    /\ \A f \in Flags : flagOn(config, f)
    /\ ~UserAgentStepFails(greq)
    /\ FeatureStepFails(greq)
    /\ ReferrerStepFails(greq)

\* C14: with enableJsCheck on, a download attempt that is not let through by
\* the referrer allowlist and carries no proof cookie is never allowed: each
\* of its evaluations answers Deny or Challenge, however often the client
\* retries.
C14_NoCookieNeverAllowed ==
    (/\ flagOn(config, "enableJsCheck")
     /\ DownloadAttempt(greq)
     /\ ~AllowlistBypass(greq, config))
    => \A i \in 1..Len(ghist) :
           ~ghist[i].cookie => ghist[i].kind \in {"Deny", "Challenge"}

\* C14 witness: a client that passes every hard check and never sets the
\* cookie asked three times and got the challenge page three times.
C14_Witness ==
    /\ Len(ghist) = 3
    /\ \A i \in 1..3 : ghist[i] = [cookie |-> FALSE, kind |-> "Challenge"]
    /\ greq.cookies.jsEnabled = Undefined
    /\ DownloadAttempt(greq)
    /\ HardChecksPass(greq, config)
    /\ \A f \in Flags : flagOn(config, f)

\* C15: the challenge comes last.  A Challenge is answered only to a download
\* attempt that passes every enabled one of the user-agent, header-feature
\* and referrer-presence checks; a download attempt that reaches these checks
\* (it is not let through by the referrer allowlist) and fails an enabled one
\* is answered Deny, never Challenge, with or without the proof cookie.
C15_ChallengeLast ==
    Evaluated =>
        /\ gres.kind = "Challenge" =>
              (DownloadAttempt(greq) /\ HardChecksPass(greq, config))
        /\ (/\ DownloadAttempt(greq)
            /\ ~AllowlistBypass(greq, config)
            /\ ~HardChecksPass(greq, config)) => gres.kind = "Deny"

\* C15 witness: with every check enabled, a request without the proof cookie
\* that passes the user-agent and header-feature steps and fails only the
\* referrer-presence step was denied, not challenged.
C15_Witness ==
    /\ Evaluated /\ gres.kind = "Deny" /\ gres.reason = "referrer"
    /\ \A f \in Flags : flagOn(config, f)
    /\ greq.cookies.jsEnabled = Undefined
    /\ ~UserAgentStepFails(greq)
    /\ ~FeatureStepFails(greq)

\* the last segment of the path
LastSegment(p) ==
    LET slashes == {i \in 1..Len(p) : p[i] = "/"}
        start == IF slashes = {} THEN 1
                 ELSE (CHOOSE i \in slashes : \A j \in slashes : j <= i) + 1
    IN  SubSeq(p, start, Len(p))

\* the path is that of the index page
RefersToIndexPage(req) == LastSegment(req.path) = <<"i", "n", "d", "e", "x", ".", "h", "t", "m", "l">>

\* the request carries neither a Referrer nor a Referer header
NoReferrerHeader(req) ==
    req.headers.referrer = Undefined /\ req.headers.referer = Undefined

\* the request reaches the referrer-presence step
PassesUserAgentAndFeature(req, cfg) ==
    /\ flagOn(cfg, "enableUserAgent") => ~UserAgentStepFails(req)
    /\ flagOn(cfg, "enableBrowserFeature") => ~FeatureStepFails(req)

\* C16: with enableReferrer on, a download attempt that passes the enabled
\* user-agent and header-feature checks and carries no referrer header is
\* denied by the referrer-presence step if and only if its path is not that
\* of the index page.
C16_NoReferrerDeniedUnlessIndexPage ==
    (/\ Evaluated
     /\ flagOn(config, "enableReferrer")
     /\ DownloadAttempt(greq)
     /\ PassesUserAgentAndFeature(greq, config)
     /\ NoReferrerHeader(greq))
    => ((gres.kind = "Deny" /\ gres.reason = "referrer") <=> ~RefersToIndexPage(greq))

\* what the code does for C16's requests: the step denies if and only if the
\* text "index.html" occurs nowhere in the path
C16_NoReferrerDeniedUnlessPathHoldsIndexName ==
    (/\ Evaluated
     /\ flagOn(config, "enableReferrer")
     /\ DownloadAttempt(greq)
     /\ PassesUserAgentAndFeature(greq, config)
     /\ NoReferrerHeader(greq))
    => ((gres.kind = "Deny" /\ gres.reason = "referrer") <=> ~Includes(greq.path, <<"i", "n", "d", "e", "x", ".", "h", "t", "m", "l">>))

---------------------------------------------------------------------------
(* Properties of the header-feature score, stated for FeatureSpec *)

\* the eleven header signals
Signals ==
    {"accept-html", "accept-webp", "accept-language", "accept-encoding",
     "sec-fetch-dest", "sec-fetch-mode", "sec-fetch-site", "sec-ch-ua",
     "connection", "upgrade-insecure-requests", "cache-control"}

Present(v) == v # Undefined /\ v # <<>>

\* the signal is present in the request's headers; the Accept-Encoding signal
\* as "contains gzip and deflate"
SignalPresent(req, sig) ==
    LET h == req.headers
    IN  CASE sig = "accept-html" -> Present(h.accept) /\ Includes(h.accept, <<"t", "e", "x", "t", "/", "h", "t", "m", "l">>)
          [] sig = "accept-webp" -> Present(h.accept) /\ Includes(h.accept, <<"i", "m", "a", "g", "e", "/", "w", "e", "b", "p">>)
          [] sig = "accept-language" -> Present(h.acceptLanguage)
          [] sig = "accept-encoding" ->
                 /\ Present(h.acceptEncoding)
                 /\ Includes(h.acceptEncoding, <<"g", "z", "i", "p">>)
                 /\ Includes(h.acceptEncoding, <<"d", "e", "f", "l", "a", "t", "e">>)
          [] sig = "sec-fetch-dest" -> Present(h.secFetchDest)
          [] sig = "sec-fetch-mode" -> Present(h.secFetchMode)
          [] sig = "sec-fetch-site" -> Present(h.secFetchSite)
          [] sig = "sec-ch-ua" -> Present(h.secChUa)
          [] sig = "connection" -> h.connection = <<"k", "e", "e", "p", "-", "a", "l", "i", "v", "e">>
          [] sig = "upgrade-insecure-requests" -> h.upgradeInsecureRequests = <<"1">>
          [] sig = "cache-control" -> Present(h.cacheControl)

SignalCount(req) == Cardinality({sig \in Signals : SignalPresent(req, sig)})

\* the request reaches the header-feature step
ReachesFeatureStep(req, cfg) ==
    /\ DownloadAttempt(req)
    /\ ~AllowlistBypass(req, cfg)
    /\ flagOn(cfg, "enableUserAgent") => ~UserAgentStepFails(req)

DeniedByFeatureStep == gres.kind = "Deny" /\ gres.reason = "browser-feature"

\* only Accept: */* and none of the other listed headers
OnlyAcceptAny(req) ==
    /\ req.headers.accept = <<"*", "/", "*">>
    /\ \A f \in DOMAIN BareHeaders : req.headers[f] = Undefined

\* Accept with text/html and image/webp, Accept-Language, Accept-Encoding with
\* gzip and deflate, Cache-Control
FiveSignals(req) ==
    /\ SignalPresent(req, "accept-html") /\ SignalPresent(req, "accept-webp")
    /\ SignalPresent(req, "accept-language")
    /\ SignalPresent(req, "accept-encoding")
    /\ SignalPresent(req, "cache-control")

\* C12: with enableBrowserFeature on, a download attempt that reaches the
\* header-feature step is denied by it exactly when fewer than 5 of the 11
\* signals are present; a request with only Accept: */* has none and is
\* denied, and a request with Accept holding text/html and image/webp,
\* Accept-Language, Accept-Encoding holding gzip and deflate, and
\* Cache-Control has at least 5 and is not denied by the step.
C12_DeniedBelowFiveSignals ==
    (/\ Evaluated
     /\ flagOn(config, "enableBrowserFeature")
     /\ ReachesFeatureStep(greq, config))
    => /\ DeniedByFeatureStep <=> SignalCount(greq) < 5
       /\ OnlyAcceptAny(greq) => (SignalCount(greq) = 0 /\ DeniedByFeatureStep)
       /\ FiveSignals(greq) => (SignalCount(greq) >= 5 /\ gres.kind # "Deny")

\* C12 witness: the request with exactly the five signals of the claim passed
\* the step, with the user-agent step enabled as well.
C12_Witness ==
    /\ Evaluated /\ gres.kind = "Allow"
    /\ flagOn(config, "enableBrowserFeature") /\ flagOn(config, "enableUserAgent")
    /\ FiveSignals(greq) /\ SignalCount(greq) = 5

\* C12 second witness: the request with only Accept: */* was denied by the
\* step.
C12_WitnessBare ==
    /\ Evaluated /\ DeniedByFeatureStep
    /\ OnlyAcceptAny(greq)
    /\ ReachesFeatureStep(greq, config)

\* standard compression schemes
StandardSchemes == { <<"g", "z", "i", "p">>, <<"d", "e", "f", "l", "a", "t", "e">>, <<"b", "r">> }

AdvertisedSchemes(req) ==
    IF ~Present(req.headers.acceptEncoding) THEN {}
    ELSE {sch \in StandardSchemes : Includes(req.headers.acceptEncoding, sch)}

\* the request with one header taken away
Without(req, header) == [req EXCEPT !.headers[header] = Undefined]

\* the points the score owes to one header
PointsOf(req, header) == browserFeatureScore(req) - browserFeatureScore(Without(req, header))

\* every header other than Accept is worth at most one point, Accept at most
\* two (its two signals), whatever the other headers are; the score lies in
\* 0..11
ScoreInRange(req) ==
    /\ browserFeatureScore(req) \in 0..11
    /\ browserFeatureScore(req) = SignalCount(req)
    /\ \A f \in DOMAIN BareHeaders : PointsOf(req, f) \in {0, 1}
    /\ PointsOf(req, "accept") \in {0, 1, 2}

\* C17: the Accept-Encoding point is awarded exactly when the header
\* advertises two or more standard compression schemes, whichever pair; each
\* signal is worth at most one point independently of the others, and the
\* score lies in 0..11.
C17_EncodingPointForAnyTwoSchemes ==
    Evaluated =>
        /\ PointsOf(greq, "acceptEncoding") = 1 <=> Cardinality(AdvertisedSchemes(greq)) >= 2
        /\ ScoreInRange(greq)

\* the part of C17 the code satisfies: the point is awarded exactly when the
\* header holds both gzip and deflate; at most one point per signal, score in
\* 0..11
C17_EncodingPointForGzipAndDeflate ==
    Evaluated =>
        /\ PointsOf(greq, "acceptEncoding") = 1 <=>
              {<<"g", "z", "i", "p">>, <<"d", "e", "f", "l", "a", "t", "e">>} \subseteq AdvertisedSchemes(greq)
        /\ ScoreInRange(greq)

=============================================================================
